---------------------------- MODULE Spec2Model ----------------------------
(***************************************************************************)
(* Model of the polyphonic Karplus-Strong guitar engine of                 *)
(* Rust/guitar-web-wasm-demo/rust-engine/src/lib.rs.                       *)
(*                                                                         *)
(* Numbers.  An f32 quantity of the engine is modelled as a fixed-point    *)
(* integer counting millionths (1.0 is Scale), or as the value NaN.        *)
(* Products and quotients are truncated toward zero.  Frequencies and the  *)
(* sample rate are whole numbers of Hz.  The 32-bit noise seed is a pair   *)
(* <<high 16 bits, low 16 bits>>, so that the wrapping multiplication is   *)
(* computed exactly.                                                       *)
(*                                                                         *)
(* The arithmetic and the steps of a rendered frame are written as         *)
(* functions, F[x \in S], so that each intermediate value of a frame is     *)
(* computed once, as the local variables of the code are.                  *)
(***************************************************************************)
EXTENDS Integers, Sequences, FiniteSets, TLC

\* engine: the Engine behind the handle; out: the host's buffer as the last
\* render left it; lastCall: the call that led to this state; notes, renders,
\* calls: how many note_on, render and calls of any kind were made (saturating);
\* lcg: the seed a caller of lcg_next holds and the value last returned
VARIABLES engine, out, lastCall, notes, renders, calls, lcg

vars == <<engine, out, lastCall, notes, renders, calls, lcg>>

---------------------------------------------------------------------------
(* Fixed-point arithmetic with NaN *)

Scale == 1000 * 1000

NaN == 0 - 2147483647

IsNaN(x) == x = NaN

Abs[x \in Int] == IF x < 0 THEN 0 - x ELSE x

Sgn[x \in Int] == IF x < 0 THEN 0 - 1 ELSE 1

\* floor(x * y / Scale) for x, y >= 0, without leaving 32 bits
MulMag[x \in Nat, y \in Nat] ==
  (x \div 1000) * (y \div 1000)
    + (((x \div 1000) * (y % 1000) + (x % 1000) * (y \div 1000)
        + (((x % 1000) * (y % 1000)) \div 1000)) \div 1000)

Pow10[k \in Nat] == IF k = 0 THEN 1 ELSE 10 * Pow10[k - 1]

\* the first k decimal digits of r / d, for 0 <= r < d
FracDigits[r \in Nat, d \in Nat, k \in Nat] ==
  IF k = 0 THEN 0
  ELSE ((r * 10) \div d) * Pow10[k - 1] + FracDigits[(r * 10) % d, d, k - 1]

\* floor(n * Scale / d) for n >= 0, d > 0
DivMag[n \in Nat, d \in Nat] == (n \div d) * Scale + FracDigits[n % d, d, 6]

FAdd[a \in Int, b \in Int] == IF IsNaN(a) \/ IsNaN(b) THEN NaN ELSE a + b

FSub[a \in Int, b \in Int] == IF IsNaN(a) \/ IsNaN(b) THEN NaN ELSE a - b

FNeg[a \in Int] == IF IsNaN(a) THEN NaN ELSE 0 - a

FMul[a \in Int, b \in Int] ==
  IF IsNaN(a) \/ IsNaN(b) THEN NaN
  ELSE Sgn[a] * Sgn[b] * MulMag[Abs[a], Abs[b]]

\* a / b for b > 0 a number
FDiv[a \in Int, b \in Int] ==
  IF IsNaN(a) THEN NaN ELSE Sgn[a] * DivMag[Abs[a], b]

\* f32::abs
FAbs[a \in Int] == IF IsNaN(a) THEN NaN ELSE Abs[a]

\* the comparisons of f32: false when an operand is NaN
FLt[a \in Int, b \in Int] == ~IsNaN(a) /\ ~IsNaN(b) /\ a < b

FGt[a \in Int, b \in Int] == FLt[b, a]

FLe[a \in Int, b \in Int] == ~IsNaN(a) /\ ~IsNaN(b) /\ a <= b

\* f32::clamp: NaN stays NaN
FClamp[x \in Int, lo \in Int, hi \in Int] ==
  IF FLt[x, lo] THEN lo ELSE IF FGt[x, hi] THEN hi ELSE x

\* f32::max and f32::min: the other operand when one is NaN
FMax[a \in Int, b \in Int] ==
  IF IsNaN(a) THEN b ELSE IF IsNaN(b) THEN a ELSE IF a > b THEN a ELSE b

FMin[a \in Int, b \in Int] ==
  IF IsNaN(a) THEN b ELSE IF IsNaN(b) THEN a ELSE IF a < b THEN a ELSE b

\* an integer as a fixed-point number
FromInt[n \in Int] == n * Scale

\* f32::round followed by `as usize` (NaN and negatives cast to 0)
RoundToUsize[x \in Int] ==
  IF IsNaN(x) \/ x < 0 THEN 0 ELSE (x + (Scale \div 2)) \div Scale

---------------------------------------------------------------------------
(* lcg_next: the deterministic noise source *)

\* 2^16, the base of the two halves of a u32
Word == 2 ^ 16

LcgA == 1664525

LcgC == 1013904223

\* u32::MAX >> 8
LcgMax == 2 ^ 24 - 1

\* a u32 as <<high 16 bits, low 16 bits>>
SeedType == (0 .. Word - 1) \X (0 .. Word - 1)

\* a u32 below 2^31 as <<high, low>>
U32(n) == <<n \div Word, n % Word>>

\* seed.wrapping_mul(1664525).wrapping_add(1013904223)
LcgState[seed \in SeedType] ==
  << (seed[1] * (LcgA % Word) + seed[2] * (LcgA \div Word) + (LcgC \div Word)
        + ((seed[2] * (LcgA % Word) + (LcgC % Word)) \div Word)) % Word,
     (seed[2] * (LcgA % Word) + (LcgC % Word)) % Word >>

\* seed >> 8
Shr8(seed) == seed[1] * 256 + (seed[2] \div 256)

\* ((seed >> 8) as f32) * (1.0 / LcgMax) * 2.0 - 1.0, as a numerator over LcgMax
LcgNumerator(seed) == 2 * Shr8(seed) - LcgMax

\* the returned f32
LcgValue[seed \in SeedType] ==
  Sgn[LcgNumerator(seed)] * DivMag[Abs[LcgNumerator(seed)], LcgMax]

\* a noise source that returns the value of the seed it was given
LcgStale(seed) == [seed |-> LcgState[seed], value |-> LcgValue[seed]]

\* lcg_next(&mut seed): the new seed and the value returned
lcg_next(seed) == [seed |-> LcgState[seed], value |-> LcgValue[LcgState[seed]]]

---------------------------------------------------------------------------
(* f32::exp and f32::cos, by their series *)

TAU == 6283185

\* the sum of the series of exp(-x) from term k on, where term is x^(k-1)/(k-1)!
RECURSIVE ExpSeries(_, _, _)
ExpSeries(x, term, k) ==
  IF term = 0 \/ k > 14 THEN 0
  ELSE LET next == MulMag[term, x] \div k
       IN  term - ExpSeries(x, next, k + 1)

\* exp(-x) for x >= 0
RECURSIVE ExpNeg(_)
ExpNeg(x) ==
  IF x >= 16 * Scale THEN 0
  ELSE IF x >= Scale
       THEN LET h == ExpNeg(x \div 2) IN MulMag[h, h]
       ELSE ExpSeries(x, Scale, 1)

\* the sum of the series of cos(x) from the term x^(2k-2)/(2k-2)! on
RECURSIVE CosSeries(_, _, _)
CosSeries(xx, term, k) ==
  IF term = 0 \/ k > 8 THEN 0
  ELSE LET next == MulMag[term, xx] \div ((2 * k - 1) * (2 * k))
       IN  term - CosSeries(xx, next, k + 1)

\* cos(TAU * u) for a fraction u of a turn, 0 <= u < 1
CosTurn(u) ==
  LET v == IF u > Scale \div 2 THEN Scale - u ELSE u
      w == IF v > Scale \div 4 THEN (Scale \div 2) - v ELSE v
      x == MulMag[TAU, w]
      c == CosSeries(MulMag[x, x], Scale, 1)
  IN  IF v > Scale \div 4 THEN 0 - c ELSE c

\* (TAU * freq_hz / sr).cos() for whole numbers of Hz
CosOmega(freq_hz, sr) == CosTurn(DivMag[freq_hz % sr, sr])

---------------------------------------------------------------------------
(* Resonator *)

\* struct Resonator
ResonatorType == [a1 : Int, a2 : Int, y1 : Int, y2 : Int, gain : Int]

\* a resonator after a sample, and its output
ResonatorOut == [res : ResonatorType, y : Int]

\* f32::max(1.0) of a sample rate in Hz
SrMax1[sample_rate \in Int] ==
  IF IsNaN(sample_rate) \/ sample_rate < 1 THEN 1 ELSE sample_rate

\* Resonator::new
ResonatorNew(sample_rate, freq_hz, r, gain) ==
  LET sr == SrMax1[sample_rate]
  IN  [a1 |-> FMul[FMul[2 * Scale, r], CosOmega(freq_hz, sr)],
       a2 |-> FMul[FNeg[r], r],
       y1 |-> 0,
       y2 |-> 0,
       gain |-> gain]

\* the resonator that holds y as its last output
ResonatorStore[res \in ResonatorType, y \in Int] ==
  [res |-> [res EXCEPT !.y2 = res.y1, !.y1 = y], y |-> y]

\* Resonator::process: the resonator after the sample, and its output
ResonatorProcess[res \in ResonatorType, x \in Int] ==
  ResonatorStore[res, FAdd[FAdd[FMul[x, res.gain], FMul[res.a1, res.y1]],
                           FMul[res.a2, res.y2]]]

---------------------------------------------------------------------------
(* Voice and Engine construction *)

MAX_VOICES == 8

VoiceIndex == 1 .. MAX_VOICES

\* struct Voice
VoiceType ==
  [buffer : Seq(Int), buffer_idx : Nat, buffer_len : Nat, frac_delay : Int,
   level : Int, freq_hz : Int, lp_state : Int, ap_x1 : Int, ap_y1 : Int,
   hp_state : Int, bridge_state : Int, attack_level : Int, sustain : Int,
   pluck_offset : Nat, pluck_mix : Int, active : BOOLEAN]

\* struct Engine
EngineType ==
  [sample_rate : Int, decay : Int, noise_seed : SeedType, brightness : Int,
   dispersion : Int, attack_decay : Int, guitar_type : Int,
   voices : Seq(VoiceType), reverb_ir : Seq(Int), reverb_buf : Seq(Int),
   reverb_pos : Nat, reverb_mix : Int, resonators : Seq(ResonatorType)]

\* Voice::new
VoiceNew ==
  [buffer |-> << >>,
   buffer_idx |-> 0,
   buffer_len |-> 0,
   frac_delay |-> 0,
   level |-> 0,
   freq_hz |-> 110,
   lp_state |-> 0,
   ap_x1 |-> 0,
   ap_y1 |-> 0,
   hp_state |-> 0,
   bridge_state |-> 0,
   attack_level |-> 0,
   sustain |-> 995000,
   pluck_offset |-> 1,
   pluck_mix |-> 300000,
   active |-> FALSE]

Zeros(n) == [i \in 1 .. n |-> 0]

\* an ir_len rounded to the nearest sample
IrLenRounded(sr) ==
  IF (sr + 5) \div 10 < 64 THEN 64
  ELSE IF (sr + 5) \div 10 > 8192 THEN 8192 ELSE (sr + 5) \div 10

\* let mut ir_len = (sr * 0.10) as usize, kept within 64 ..= 8192
IrLen(sr) ==
  LET ir_len == sr \div 10
  IN  IF ir_len < 64 THEN 64 ELSE IF ir_len > 8192 THEN 8192 ELSE ir_len

\* the tail of the impulse response, samples lo .. hi, from the noise seed and
\* the filter state `prev` the loop holds on reaching lo
RECURSIVE ReverbTail(_, _, _, _, _, _)
ReverbTail(lo, hi, ir_len, sr, seed, prev) ==
  IF lo = hi
  THEN LET tail_s == DivMag[ir_len, sr]
           t == DivMag[lo, sr]
           env == ExpNeg(DivMag[t, 200000])
           hf == FClamp[DivMag[t, tail_s], 0, Scale]
           alpha == FClamp[250000 + FMul[550000, hf], 0, 980000]
           noise == lcg_next(seed)
           filtered == FMul[alpha, prev] + FMul[Scale - alpha, noise.value]
       IN  [ir |-> <<FMul[FMul[env, filtered], 60000]>>,
            seed |-> noise.seed, prev |-> filtered]
  ELSE LET mid == (lo + hi) \div 2
           left == ReverbTail(lo, mid, ir_len, sr, seed, prev)
           right == ReverbTail(mid + 1, hi, ir_len, sr, left.seed, left.prev)
       IN  [ir |-> left.ir \o right.ir, seed |-> right.seed, prev |-> right.prev]

\* the early reflections: (time in millionths of a second, amplitude)
Taps ==
  << <<2500, 750000>>, <<4900, 550000>>, <<7300, 400000>>, <<11000, 280000>>,
     <<17000, 220000>>, <<26000, 180000>>, <<35000, 140000>>, <<48000, 120000>> >>

\* reverb_ir[idx] += a for the taps k .. 8
RECURSIVE AddTaps(_, _, _)
AddTaps(ir, sr, k) ==
  IF k > Len(Taps) THEN ir
  ELSE LET idx == ((Taps[k][1] \div 100) * sr) \div 10000
           nxt == IF idx < Len(ir)
                  THEN [ir EXCEPT ![idx + 1] = ir[idx + 1] + Taps[k][2]]
                  ELSE ir
       IN  AddTaps(nxt, sr, k + 1)

\* the sum of f[lo .. hi]
RECURSIVE SumRange(_, _, _)
SumRange(f, lo, hi) ==
  IF lo > hi THEN 0
  ELSE IF lo = hi THEN f[lo]
  ELSE LET mid == (lo + hi) \div 2
       IN  FAdd[SumRange(f, lo, mid), SumRange(f, mid + 1, hi)]

\* the normalised impulse response of Engine::new
ReverbIr(sr) ==
  LET ir_len == IrLen(sr)
      raw == AddTaps(ReverbTail(0, ir_len - 1, ir_len, sr, U32(1234567), 0).ir, sr, 1)
      norm == FMax[SumRange([k \in 1 .. Len(raw) |-> Abs[raw[k]]], 1, Len(raw)), Scale]
  IN  [k \in 1 .. Len(raw) |-> FDiv[raw[k], norm]]

\* presets in which the jumbo steel guitar was given the tuple of the nylon one
PresetJumboAsNylon(t) ==
  CASE t = 0 -> [decay |-> 997800, brightness |-> 800000, dispersion |-> 220000,
                 attack_decay |-> 986000, reverb_mix |-> 140000]
    [] t = 1 -> [decay |-> 998200, brightness |-> 600000, dispersion |-> 160000,
                 attack_decay |-> 987000, reverb_mix |-> 160000]
    [] t = 2 -> [decay |-> 998500, brightness |-> 450000, dispersion |-> 70000,
                 attack_decay |-> 989000, reverb_mix |-> 120000]
    [] t = 3 -> [decay |-> 998500, brightness |-> 450000, dispersion |-> 70000,
                 attack_decay |-> 989000, reverb_mix |-> 120000]

\* the five parameters of guitar type t
Preset(t) ==
  CASE t = 0 -> [decay |-> 997800, brightness |-> 800000, dispersion |-> 220000,
                 attack_decay |-> 986000, reverb_mix |-> 140000]
    [] t = 1 -> [decay |-> 998200, brightness |-> 600000, dispersion |-> 160000,
                 attack_decay |-> 987000, reverb_mix |-> 160000]
    [] t = 2 -> [decay |-> 998500, brightness |-> 450000, dispersion |-> 70000,
                 attack_decay |-> 989000, reverb_mix |-> 120000]
    [] t = 3 -> [decay |-> 998700, brightness |-> 700000, dispersion |-> 200000,
                 attack_decay |-> 985000, reverb_mix |-> 180000]

\* Engine::set_guitar_profile
set_guitar_profile(e, guitar_type) ==
  LET t == IF guitar_type \in {0, 1, 2, 3} THEN guitar_type ELSE 0
      p == Preset(t)
  IN  [e EXCEPT !.guitar_type = t,
                !.decay = FClamp[p.decay, 950000, 999900],
                !.brightness = FClamp[p.brightness, 0, Scale],
                !.dispersion = FClamp[p.dispersion, 0, 500000],
                !.attack_decay = FClamp[p.attack_decay, 950000, 999000],
                !.reverb_mix = FClamp[p.reverb_mix, 0, 900000]]

\* Engine::new
EngineNew(sample_rate) ==
  LET sr == SrMax1[sample_rate]
      ir == ReverbIr(sr)
  IN  set_guitar_profile(
        [sample_rate |-> sample_rate,
         decay |-> 996800,
         noise_seed |-> U32(1),
         brightness |-> 700000,
         dispersion |-> 200000,
         attack_decay |-> 988000,
         guitar_type |-> 0,
         voices |-> [i \in VoiceIndex |-> VoiceNew],
         reverb_ir |-> ir,
         reverb_buf |-> Zeros(Len(ir)),
         reverb_pos |-> 0,
         reverb_mix |-> 100000,
         resonators |->
           << ResonatorNew(sr, 110, 950000, 80000),
              ResonatorNew(sr, 240, 960000, 100000),
              ResonatorNew(sr, 530, 970000, 80000),
              ResonatorNew(sr, 1200, 980000, 30000),
              ResonatorNew(sr, 2400, 920000, 20000) >>],
        0)

---------------------------------------------------------------------------
(* Engine::process_reverb *)

\* the sum over k in lo .. hi of reverb_ir[k] * reverb_buf[idx], idx running
\* down from pos
RECURSIVE ConvolveRange(_, _, _, _, _)
ConvolveRange(ir, buf, pos, lo, hi) ==
  IF lo = hi
  THEN FMul[ir[lo], buf[((pos + Len(ir) - (lo - 1)) % Len(ir)) + 1]]
  ELSE FAdd[ConvolveRange(ir, buf, pos, lo, (lo + hi) \div 2),
            ConvolveRange(ir, buf, pos, ((lo + hi) \div 2) + 1, hi)]

\* the accumulator of the convolution loop
Convolve[ir \in Seq(Int), buf \in Seq(Int), pos \in Nat] ==
  ConvolveRange(ir, buf, pos, 1, Len(ir))

\* an engine after a sample went through the reverb, and the wet sample
ReverbOut == [e : EngineType, wet : Int]

\* the convolution over the history buf, and the advance of the write position
ReverbStep[e \in EngineType, buf \in Seq(Int)] ==
  [e |-> [e EXCEPT !.reverb_buf = buf,
                   !.reverb_pos = IF e.reverb_pos + 1 >= Len(e.reverb_ir)
                                  THEN 0 ELSE e.reverb_pos + 1],
   wet |-> Convolve[e.reverb_ir, buf, e.reverb_pos]]

\* Engine::process_reverb: the engine after the sample, and the wet sample
process_reverb[e \in EngineType, x \in Int] ==
  IF Len(e.reverb_ir) = 0 \/ Len(e.reverb_buf) = 0
       \/ Len(e.reverb_ir) # Len(e.reverb_buf)
  THEN [e |-> e, wet |-> x]
  ELSE ReverbStep[e, [e.reverb_buf EXCEPT ![e.reverb_pos + 1] = x]]

---------------------------------------------------------------------------
(* Engine::excite *)

\* freq.max(20.0), in Hz
FreqMax20[freq \in Int] == IF IsNaN(freq) \/ freq < 20 THEN 20 ELSE freq

\* ((f - 82.0) / (330.0 - 82.0)).clamp(0.0, 1.0), for f in Hz
FNorm[f \in Int] == FClamp[Sgn[f - 82] * DivMag[Abs[f - 82], 330 - 82], 0, Scale]

\* (sr / f).floor() as usize, at least 2
DelayLength(sr, f) == IF sr \div f < 2 THEN 2 ELSE sr \div f

\* the scan that keeps the last voice that is not active, from voice i on
LastInactive(voices, i) ==
  IF \A k \in i .. MAX_VOICES : voices[k].active THEN 0
  ELSE CHOOSE k \in i .. MAX_VOICES :
         ~voices[k].active /\ \A j \in (k + 1) .. MAX_VOICES : voices[j].active

\* the first voice that is not active, or 0
RECURSIVE FirstInactive(_, _)
FirstInactive(voices, i) ==
  IF i > MAX_VOICES THEN 0
  ELSE IF ~voices[i].active THEN i ELSE FirstInactive(voices, i + 1)

\* the scan for the quietest voice from voice i on
RECURSIVE Quietest(_, _, _, _)
Quietest(voices, i, best_i, best_level) ==
  IF i > MAX_VOICES THEN best_i
  ELSE IF FLt[voices[i].level, best_level]
       THEN Quietest(voices, i + 1, i, voices[i].level)
       ELSE Quietest(voices, i + 1, best_i, best_level)

\* f32::MAX, above every level the model reaches
F32Max == 2147 * Scale

\* a target that is the first voice, whatever the voices do
FirstVoice(voices) == 1

\* target_index, counted from 1
TargetIndex(voices) ==
  IF FirstInactive(voices, 1) # 0 THEN FirstInactive(voices, 1)
  ELSE Quietest(voices, 1, 1, F32Max)

\* a resize to exactly `length` samples, which cuts a longer buffer
ResizeExact(buffer, length) ==
  [k \in 1 .. length |-> IF k <= Len(buffer) THEN buffer[k] ELSE 0]

\* voice.buffer.resize(length, 0.0) when it is shorter
Resize(buffer, length) ==
  IF Len(buffer) < length
  THEN buffer \o Zeros(length - Len(buffer))
  ELSE buffer

\* (length as f32 * pick_ratio).round() as usize, within 1 ..= max(length - 1, 1)
PickOffset(length, vel) ==
  LET ratio0 == FClamp[FAdd[180000, FMul[600000, FSub[Scale, vel]]], 100000, 850000]
      pick_ratio == FMin[ratio0, 950000]
      pick_offset == RoundToUsize[FMul[FromInt[length], pick_ratio]]
      max_offset == IF length - 1 < 1 THEN 1 ELSE length - 1
  IN  IF pick_offset < 1 THEN 1
      ELSE IF pick_offset > max_offset THEN max_offset ELSE pick_offset

\* the excitation written over the samples lo .. hi of the buffer, from the
\* noise seed and the filter state `prev` the loop holds on reaching lo
RECURSIVE Excitation(_, _, _, _, _, _, _)
Excitation(lo, hi, length, pick_pos, vel, seed, prev) ==
  IF lo > hi THEN [buffer |-> << >>, seed |-> seed, prev |-> prev]
  ELSE IF lo = hi
  THEN LET noise == lcg_next(seed)
           filtered == FMul[500000, noise.value] + FMul[500000, prev]
           dist == Abs[DivMag[lo, length] - pick_pos]
           pick_shape == FClamp[Scale - FMul[dist, 2500000], 0, Scale]
       IN  [buffer |-> <<FMul[FMul[filtered, vel], pick_shape]>>,
            seed |-> noise.seed, prev |-> filtered]
  ELSE LET mid == (lo + hi) \div 2
           left == Excitation(lo, mid, length, pick_pos, vel, seed, prev)
           right == Excitation(mid + 1, hi, length, pick_pos, vel, left.seed, left.prev)
       IN  [buffer |-> left.buffer \o right.buffer, seed |-> right.seed,
            prev |-> right.prev]

\* the smoothing of buffer[1 .. 3] when length > 4
Smooth(buffer, length) ==
  IF length > 4
  THEN [buffer EXCEPT ![2] = FAdd[FMul[500000, buffer[2]], FMul[500000, buffer[1]]],
                      ![3] = FAdd[FMul[500000, buffer[3]], FMul[500000, buffer[2]]],
                      ![4] = FAdd[FMul[500000, buffer[4]], FMul[500000, buffer[3]]]]
  ELSE buffer

\* Engine::excite
excite(e, freq, velocity) ==
  LET sr == SrMax1[e.sample_rate]
      f == FreqMax20[freq]
      vel == FClamp[velocity, 0, Scale]
      length == DelayLength(sr, f)
      target == TargetIndex(e.voices)
      voice == e.voices[target]
      resized == Resize(voice.buffer, length)
      f_norm == FNorm[IF f < 82 THEN 82 ELSE IF f > 330 THEN 330 ELSE f]
      pluck_offset == PickOffset(length, vel)
      exc == Excitation(0, Len(resized) - 1, length, DivMag[pluck_offset, length],
                        vel, e.noise_seed, 0)
      attack_scale == 30000 + FMul[30000, Scale - f_norm]
      excited ==
        [buffer |-> Smooth(exc.buffer, length),
         buffer_idx |-> 0,
         buffer_len |-> length,
         frac_delay |-> FClamp[DivMag[sr, f] - FromInt[length], 0, 999000],
         level |-> FAbs[vel],
         freq_hz |-> f,
         lp_state |-> 0,
         ap_x1 |-> 0,
         ap_y1 |-> 0,
         hp_state |-> 0,
         bridge_state |-> 0,
         attack_level |-> FMul[vel, attack_scale],
         sustain |-> FMin[995000 + FMul[6000, Scale - f_norm], 999800],
         pluck_offset |-> pluck_offset,
         pluck_mix |-> FClamp[FAdd[150000, FMul[350000, vel]], 50000, 700000],
         active |-> TRUE]
  IN  [e EXCEPT !.voices[target] = excited, !.noise_seed = exc.seed]

---------------------------------------------------------------------------
(* Engine::render *)

\* the frequency-dependent coefficients of a voice within a frame
ProfileType ==
  [f_norm : Int, decay : Int, brightness : Int, dispersion : Int,
   attack_decay : Int]

\* a voice after its step of a frame, the noise seed and the voice's sample
VoiceOut == [voice : VoiceType, seed : SeedType, sample : Int]

\* the end of a voice's step: the stores, the advance of the index and the idle
\* test, for the new level and attack level
VoiceStore[voice \in VoiceType, avg \in Int, ap \in Int, lp_state \in Int, y \in Int, level \in Int, attack_level \in Int] ==
  [voice EXCEPT !.ap_x1 = avg,
                !.ap_y1 = ap,
                !.lp_state = lp_state,
                !.buffer[voice.buffer_idx + 1] = y,
                !.buffer_idx = (voice.buffer_idx + 1) % voice.buffer_len,
                !.level = level,
                !.attack_level = attack_level,
                !.active = ~(FLt[level, 5] /\ FLt[attack_level, 50])]

\* the running level with the 0.997 factor left out
LevelAccumulate(level, y) == FAdd[level, FMul[3000, FAbs[y]]]

\* voice.level = 0.997 * voice.level + 0.003 * feedback.abs()
LevelUpdate(level, y) == FAdd[FMul[997000, level], FMul[3000, FAbs[y]]]

\* the attack transient, from the feedback sample y on
VoiceAttack[voice \in VoiceType, seed \in SeedType, p \in ProfileType, avg \in Int, ap \in Int, lp_state \in Int, y \in Int] ==
  IF FGt[voice.attack_level, 1000]
  THEN [voice |-> VoiceStore[voice, avg, ap, lp_state, y,
                             LevelUpdate(voice.level, y),
                             FMul[voice.attack_level, p.attack_decay]],
        seed |-> lcg_next(seed).seed,
        sample |-> FAdd[y, FMul[FMul[FSub[lcg_next(seed).value,
                                          FMul[lp_state, 800000]],
                                     voice.attack_level],
                                450000 + FMul[350000, p.f_norm]]]]
  ELSE [voice |-> VoiceStore[voice, avg, ap, lp_state, y,
                             LevelUpdate(voice.level, y),
                             voice.attack_level],
        seed |-> seed,
        sample |-> y]

\* the brightness mix and the decay, giving the feedback sample y
VoiceFeedback[voice \in VoiceType, seed \in SeedType, p \in ProfileType, avg \in Int, ap \in Int, lp_state \in Int] ==
  VoiceAttack[voice, seed, p, avg, ap, lp_state,
              FMul[p.decay, FAdd[FMul[p.brightness, ap],
                                 FMul[FSub[Scale, p.brightness], lp_state]]]]

\* the low-pass of the feedback path
VoiceLowPass[voice \in VoiceType, seed \in SeedType, p \in ProfileType, avg \in Int, ap \in Int] ==
  VoiceFeedback[voice, seed, p, avg, ap,
                FAdd[voice.lp_state, FMul[50000, FSub[ap, voice.lp_state]]]]

\* the all-pass that gives the dispersion
VoiceAllPass[voice \in VoiceType, seed \in SeedType, p \in ProfileType, avg \in Int] ==
  VoiceLowPass[voice, seed, p, avg,
               FAdd[FAdd[FMul[FNeg[p.dispersion], avg], voice.ap_x1],
                    FMul[p.dispersion, voice.ap_y1]]]

\* the Karplus-Strong average of the interpolated sample and the current one
VoiceAvg[curr \in Int, next \in Int, frac \in Int] ==
  FMul[500000, FAdd[FAdd[curr, FMul[FSub[next, curr], frac]], curr]]

\* the frequency-dependent profile of a voice
VoiceProfile[e \in EngineType, voice \in VoiceType, f_norm \in Int] ==
  [f_norm |-> f_norm,
   decay |-> FMul[FAdd[e.decay, FMul[2500, Scale - f_norm]], voice.sustain],
   brightness |-> FClamp[FAdd[FAdd[e.brightness, FMul[450000, f_norm]],
                              FMul[voice.pluck_mix, 300000]], 0, Scale],
   dispersion |-> FClamp[FMul[e.dispersion, 150000 + FMul[250000, f_norm]],
                         0, 350000],
   attack_decay |-> FClamp[FSub[e.attack_decay, FMul[4000, f_norm]],
                           970000, 993000]]

\* one active voice's step of one frame: the voice, the seed and its sample
VoiceFrame[e \in EngineType, voice \in VoiceType, seed \in SeedType] ==
  VoiceAllPass[voice, seed,
               VoiceProfile[e, voice, FNorm[FreqMax20[voice.freq_hz]]],
               VoiceAvg[voice.buffer[voice.buffer_idx + 1],
                        voice.buffer[((voice.buffer_idx + 1) % voice.buffer_len) + 1],
                        voice.frac_delay]]

\* what the loop over the voices holds within a frame
VoicesOut ==
  [voices : Seq(VoiceType), seed : SeedType, string_sum : Int, active_count : Nat]

\* the loop's state after voice i made the step r
VoiceDone[acc \in VoicesOut, i \in Nat, r \in VoiceOut] ==
  [voices |-> [acc.voices EXCEPT ![i] = r.voice],
   seed |-> r.seed,
   string_sum |-> FAdd[acc.string_sum, r.sample],
   active_count |-> acc.active_count + 1]

\* the loop over the voices from voice i on, within one frame
VoicesFrame[e \in EngineType, acc \in VoicesOut, i \in Nat] ==
  IF i > MAX_VOICES THEN acc
  ELSE IF ~acc.voices[i].active \/ acc.voices[i].buffer_len < 2
       THEN VoicesFrame[e, acc, i + 1]
       ELSE VoicesFrame[e, VoiceDone[acc, i, VoiceFrame[e, acc.voices[i], acc.seed]],
                        i + 1]

\* what the loop over the resonators holds within a frame
BodyOut == [resonators : Seq(ResonatorType), body : Int]

\* the loop's state after resonator k made the step r
BodyDone[acc \in BodyOut, k \in Nat, r \in ResonatorOut] ==
  [resonators |-> [acc.resonators EXCEPT ![k] = r.res],
   body |-> FAdd[acc.body, r.y]]

\* the loop over the resonators from k on, fed with x
Body[acc \in BodyOut, k \in Nat, x \in Int] ==
  IF k > Len(acc.resonators) THEN acc
  ELSE Body[BodyDone[acc, k, ResonatorProcess[acc.resonators[k], x]], k + 1, x]

\* the soft clip at the end of a frame
SoftClip[x \in Int] ==
  IF FGt[x, 950000] THEN 950000 + FMul[x - 950000, 200000]
  ELSE IF FLt[x, 0 - 950000] THEN (0 - 950000) + FMul[x + 950000, 200000]
  ELSE x

\* an engine after a frame, and the sample written
FrameType == [e : EngineType, sample : Int]

\* the dry/wet mix and the soft clip
FrameOut[dry \in Int, mix \in Int, rev \in ReverbOut] ==
  [e |-> rev.e,
   sample |-> SoftClip[FAdd[FMul[dry, FSub[Scale, mix]], FMul[rev.wet, mix]]]]

\* the reverb fed with the dry mix
FrameReverb[e \in EngineType, dry \in Int] ==
  FrameOut[dry, e.reverb_mix, process_reverb[e, dry]]

\* the dry mix of the string sum and the body response b
FrameDry[e \in EngineType, string_sum \in Int, b \in BodyOut] ==
  FrameReverb[[e EXCEPT !.resonators = b.resonators],
              FAdd[FMul[550000, string_sum], FMul[450000, b.body]]]

\* the body resonators fed with the normalised string sum
FrameBody[e \in EngineType, string_sum \in Int] ==
  FrameDry[e, string_sum,
           Body[[resonators |-> e.resonators, body |-> 0], 1, string_sum]]

\* the normalisation of the string sum by the number of voices that rang
FrameNorm[e \in EngineType, v \in VoicesOut] ==
  FrameBody[[e EXCEPT !.voices = v.voices, !.noise_seed = v.seed],
            FDiv[v.string_sum,
                 FromInt[IF v.active_count < 1 THEN 1 ELSE v.active_count]]]

\* one frame of Engine::render: the engine and the sample written
Frame[e \in EngineType] ==
  FrameNorm[e, VoicesFrame[e, [voices |-> e.voices, seed |-> e.noise_seed,
                               string_sum |-> 0, active_count |-> 0], 1]]

\* an engine and the samples it wrote so far in a call of render
RenderType == [e : EngineType, out : Seq(Int)]

\* the frame fr written after the samples of r
FrameDone[r \in RenderType, fr \in FrameType] ==
  [e |-> fr.e, out |-> Append(r.out, fr.sample)]

\* n more frames of Engine::render
Frames[r \in RenderType, n \in Nat] ==
  IF n = 0 THEN r
  ELSE IF n = 1 THEN FrameDone[r, Frame[r.e]]
  ELSE Frames[Frames[r, n \div 2], n - (n \div 2)]

\* Engine::render on a buffer of `frames` samples
render(e, frames) ==
  IF FLe[e.sample_rate, 0] \/ frames = 0
  THEN [e |-> e, out |-> Zeros(frames)]
  ELSE Frames[[e |-> e, out |-> << >>], frames]

---------------------------------------------------------------------------
(* The exported calls *)

\* bounds of the exploration
MaxCalls == 2

MaxNotes == 9

MaxRenders == 1

MaxCreateCalls == 2

MaxDraws == 30

\* the inputs the calls are explored with
SampleRates == {10}

Freqs == {20}

Velocities == {0, Scale, NaN}

FrameCounts == {0, 1, 32}

GuitarTypes == {0 - 1, 0, 1, 2, 3, 99}

SetterArgs == {0 - Scale, 300000, 975000, 2 * Scale, NaN}

Count(n, max) == IF n < max THEN n + 1 ELSE n

NoCall == [op |-> "create", arg |-> 0, arg2 |-> 0, target |-> 0, stolen |-> FALSE]

Call(op, arg) == [NoCall EXCEPT !.op = op, !.arg = arg]

\* engine_init(sample_rate), for a sample rate of `rates`
InitEngine(rates) ==
  /\ \E sample_rate \in rates : engine = EngineNew(sample_rate)
  /\ out = << >>
  /\ lastCall = NoCall
  /\ notes = 0
  /\ renders = 0
  /\ calls = 0

InitAt(rates) == InitEngine(rates) /\ lcg = [seed |-> U32(1), value |-> 0]

Init == InitAt(SampleRates)

\* engine_note_on(engine, freq, velocity)
NoteOn(freq, velocity) ==
  /\ engine' = excite(engine, freq, velocity)
  /\ lastCall' = [op |-> "note_on", arg |-> freq, arg2 |-> velocity,
                  target |-> TargetIndex(engine.voices),
                  stolen |-> \A i \in VoiceIndex : engine.voices[i].active]
  /\ notes' = Count(notes, MaxNotes)
  /\ calls' = Count(calls, MaxCalls)
  /\ UNCHANGED <<out, renders, lcg>>

\* engine_render(engine, buffer, frames), counted up to max calls
RenderUpTo(frames, max) ==
  /\ IF frames = 0
     THEN UNCHANGED <<engine, out>>
     ELSE \E r \in {render(engine, frames)} : engine' = r.e /\ out' = r.out
  /\ lastCall' = Call("render", frames)
  /\ renders' = Count(renders, max)
  /\ calls' = Count(calls, MaxCalls)
  /\ UNCHANGED <<notes, lcg>>

\* engine_render(engine, buffer, frames)
Render(frames) == RenderUpTo(frames, MaxRenders)

\* engine_set_guitar_type(engine, guitar_type)
SetGuitarType(guitar_type) ==
  /\ engine' = set_guitar_profile(engine, guitar_type)
  /\ lastCall' = Call("set_guitar_type", guitar_type)
  /\ calls' = Count(calls, MaxCalls)
  /\ UNCHANGED <<out, notes, renders, lcg>>

\* engine_set_decay(engine, decay)
SetDecay(decay) ==
  /\ engine' = [engine EXCEPT !.decay = FClamp[decay, 950000, 999900]]
  /\ lastCall' = Call("set_decay", decay)
  /\ calls' = Count(calls, MaxCalls)
  /\ UNCHANGED <<out, notes, renders, lcg>>

\* engine_set_brightness(engine, brightness)
SetBrightness(brightness) ==
  /\ engine' = [engine EXCEPT !.brightness = FClamp[brightness, 0, Scale]]
  /\ lastCall' = Call("set_brightness", brightness)
  /\ calls' = Count(calls, MaxCalls)
  /\ UNCHANGED <<out, notes, renders, lcg>>

\* engine_set_dispersion(engine, dispersion)
SetDispersion(dispersion) ==
  /\ engine' = [engine EXCEPT !.dispersion = FClamp[dispersion, 0, 500000]]
  /\ lastCall' = Call("set_dispersion", dispersion)
  /\ calls' = Count(calls, MaxCalls)
  /\ UNCHANGED <<out, notes, renders, lcg>>

\* engine_set_attack_decay(engine, attack_decay)
SetAttackDecay(attack_decay) ==
  /\ engine' = [engine EXCEPT !.attack_decay = FClamp[attack_decay, 950000, 999000]]
  /\ lastCall' = Call("set_attack_decay", attack_decay)
  /\ calls' = Count(calls, MaxCalls)
  /\ UNCHANGED <<out, notes, renders, lcg>>

\* engine_set_reverb_mix(engine, mix)
SetReverbMix(mix) ==
  /\ engine' = [engine EXCEPT !.reverb_mix = FClamp[mix, 0, 900000]]
  /\ lastCall' = Call("set_reverb_mix", mix)
  /\ calls' = Count(calls, MaxCalls)
  /\ UNCHANGED <<out, notes, renders, lcg>>

\* any call of the interface, on an engine that took fewer than MaxCalls calls
Next ==
  \/ /\ calls < MaxCalls
     /\ \E freq \in Freqs, velocity \in Velocities : NoteOn(freq, velocity)
  \/ /\ calls < MaxCalls
     /\ \E frames \in FrameCounts : Render(frames)
  \/ /\ calls < MaxCalls
     /\ \E guitar_type \in GuitarTypes : SetGuitarType(guitar_type)
  \/ /\ calls < MaxCalls
     /\ \E decay \in SetterArgs : SetDecay(decay)
  \/ /\ calls < MaxCalls
     /\ \E brightness \in SetterArgs : SetBrightness(brightness)
  \/ /\ calls < MaxCalls
     /\ \E dispersion \in SetterArgs : SetDispersion(dispersion)
  \/ /\ calls < MaxCalls
     /\ \E attack_decay \in SetterArgs : SetAttackDecay(attack_decay)
  \/ /\ calls < MaxCalls
     /\ \E mix \in SetterArgs : SetReverbMix(mix)

Spec == Init /\ [][Next]_vars

---------------------------------------------------------------------------
(* Notes and rendering only: up to MaxNotes notes, enough to fill the pool *)
(* of voices and to steal one, on an engine whose delay lines have several *)
(* lengths.                                                                *)

VoiceRates == {100}

\* <<freq, velocity>>: a loud low note and a silent higher one
VoiceNotes == {<<20, Scale>>, <<30, 0>>}

VoiceFrames == {1}

InitVoices == InitAt(VoiceRates)

NextVoices ==
  \/ /\ notes < MaxNotes
     /\ \E note \in VoiceNotes : NoteOn(note[1], note[2])
  \/ /\ renders < MaxRenders
     /\ \E frames \in VoiceFrames : Render(frames)

SpecVoices == InitVoices /\ [][NextVoices]_vars

---------------------------------------------------------------------------
(* One note, then render for ever: the host keeps calling engine_render.   *)

LiveFreqs == {330, 500}

LiveVelocities == {0, 500000, Scale}

LiveFrames == {64}

RenderOn == \E frames \in LiveFrames : Render(frames)

NextLive ==
  \/ /\ notes = 0
     /\ \E freq \in LiveFreqs, velocity \in LiveVelocities : NoteOn(freq, velocity)
  \/ RenderOn

SpecLive == Init /\ [][NextLive]_vars /\ WF_vars(RenderOn)

---------------------------------------------------------------------------
(* A preset, one note, then one frame per call of engine_render, so that   *)
(* every frame of the voice is a step.                                     *)

MaxLevelFrames == 800

LevelFreqs == {110}

LevelVelocities == {500000, Scale}

LevelTypes == {0, 2}

NextLevel ==
  \/ /\ notes = 0
     /\ \E guitar_type \in LevelTypes \ {engine.guitar_type} :
          SetGuitarType(guitar_type)
  \/ /\ notes = 0
     /\ \E freq \in LevelFreqs, velocity \in LevelVelocities : NoteOn(freq, velocity)
  \/ /\ notes > 0
     /\ renders < MaxLevelFrames
     /\ RenderUpTo(1, MaxLevelFrames)

SpecLevel == Init /\ [][NextLevel]_vars

---------------------------------------------------------------------------
(* Construction at several sample rates, followed by a few calls.          *)

CreateRates == {1, 10, 639, 640, 646, 655, 1005, 81919, 100000}

\* a steel preset and a guitar type that falls back to the first one
CreateTypes == {1, 99}

InitCreate == InitAt(CreateRates)

NextCreate ==
  \/ /\ calls < MaxCreateCalls
     /\ NoteOn(440, Scale)
  \/ /\ calls < MaxCreateCalls
     /\ Render(1)
  \/ /\ calls < MaxCreateCalls
     /\ \E guitar_type \in CreateTypes : SetGuitarType(guitar_type)

SpecCreate == InitCreate /\ [][NextCreate]_vars

---------------------------------------------------------------------------
(* The noise source on its own: lcg_next applied again and again to a seed *)

LcgSeeds == {U32(0), U32(1), U32(1234567), <<65535, 65535>>}

InitLcg ==
  /\ InitEngine(SampleRates)
  /\ \E seed \in LcgSeeds : lcg = [seed |-> seed, value |-> 0]

\* one call of lcg_next(&mut seed)
LcgDraw ==
  /\ lcg' = lcg_next(lcg.seed)
  /\ calls' = Count(calls, MaxDraws)
  /\ UNCHANGED <<engine, out, lastCall, notes, renders>>

NextLcg == calls < MaxDraws /\ LcgDraw

SpecLcg == InitLcg /\ [][NextLcg]_vars

---------------------------------------------------------------------------
(* The properties checked *)

ActiveCount(voices) == Cardinality({i \in VoiceIndex : voices[i].active})

\* t is the voice a note should take: the first idle voice, or when none is
\* idle the quietest voice, the first of them when several are as quiet
IsNoteTarget(voices, t) ==
  IF \E i \in VoiceIndex : ~voices[i].active
  THEN ~voices[t].active /\ \A i \in 1 .. (t - 1) : voices[i].active
  ELSE /\ \A i \in VoiceIndex : voices[t].level <= voices[i].level
       /\ \A i \in 1 .. (t - 1) : voices[t].level < voices[i].level

\* voice holds the note of the call: ringing from the start of its delay line
HoldsNote(voice, call) ==
  /\ voice.active
  /\ voice.buffer_idx = 0
  /\ voice.freq_hz = call.arg
  /\ voice.level = call.arg2
  /\ voice.lp_state = 0 /\ voice.ap_x1 = 0 /\ voice.ap_y1 = 0

\* C1: a note_on reinitialises the lowest-index voice that is not active, or,
\* when all 8 voices are active, the voice with the lowest level (the lowest
\* index among those tied for it); every other voice is left unchanged.
C1_NoteTakesFirstIdleOrQuietest ==
  [][lastCall'.op = "note_on" =>
       \E t \in VoiceIndex :
         /\ IsNoteTarget(engine.voices, t)
         /\ HoldsNote(engine'.voices[t], lastCall')
         /\ \A i \in VoiceIndex \ {t} : engine'.voices[i] = engine.voices[i]]_vars

\* a note stole a voice other than the first one
C1_Witness ==
  /\ lastCall.op = "note_on"
  /\ lastCall.stolen
  /\ lastCall.target > 1

\* C2: the number of active voices stays within 0 .. 8; a note_on with fewer
\* than 8 active voices raises it by exactly 1; a note_on with all 8 active
\* leaves it at 8 and the note takes over the quietest voice.
C2_ActiveCount ==
  [][/\ ActiveCount(engine'.voices) \in 0 .. MAX_VOICES
     /\ lastCall'.op = "note_on" =>
          IF ActiveCount(engine.voices) < MAX_VOICES
          THEN ActiveCount(engine'.voices) = ActiveCount(engine.voices) + 1
          ELSE /\ ActiveCount(engine'.voices) = MAX_VOICES
               /\ \E t \in VoiceIndex :
                    /\ \A i \in VoiceIndex :
                         engine.voices[t].level <= engine.voices[i].level
                    /\ HoldsNote(engine'.voices[t], lastCall')]_vars

\* the pool was full and the last note was taken all the same
C2_Witness ==
  /\ lastCall.op = "note_on"
  /\ lastCall.stolen
  /\ ActiveCount(engine.voices) = MAX_VOICES
  /\ notes = MaxNotes

\* C3: every sample written by render lies in [-1.14, 1.14].  The samples
\* that are NaN are left aside here: they come from the setters (C4).
C3_OutputWithinSoftClip ==
  \A k \in 1 .. Len(out) :
    ~IsNaN(out[k]) => (0 - 1140000 <= out[k] /\ out[k] <= 1140000)

\* C4: in every reachable state decay is in [0.95, 0.9999], brightness in
\* [0, 1], dispersion in [0, 0.5], attack_decay in [0.95, 0.999] and
\* reverb_mix in [0, 0.9].
C4_ParametersInRange ==
  /\ FLe[950000, engine.decay] /\ FLe[engine.decay, 999900]
  /\ FLe[0, engine.brightness] /\ FLe[engine.brightness, Scale]
  /\ FLe[0, engine.dispersion] /\ FLe[engine.dispersion, 500000]
  /\ FLe[950000, engine.attack_decay] /\ FLe[engine.attack_decay, 999000]
  /\ FLe[0, engine.reverb_mix] /\ FLe[engine.reverb_mix, 900000]

\* C5: on an engine that has received no note_on, render(N) writes 0 to every
\* one of the N frames, whatever render, setter or preset calls came before.
C5_SilentWithoutNotes ==
  (notes = 0 /\ lastCall.op = "render" /\ lastCall.arg > 0) =>
    /\ Len(out) = lastCall.arg
    /\ \A k \in 1 .. Len(out) : out[k] = 0

\* the tuples of the four guitar types:
\* <<decay, brightness, dispersion, attack_decay, reverb_mix>>
GuitarTuples ==
  << <<997800, 800000, 220000, 986000, 140000>>,
     <<998200, 600000, 160000, 987000, 160000>>,
     <<998500, 450000, 70000, 989000, 120000>>,
     <<998700, 700000, 200000, 985000, 180000>> >>

ParameterTuple(e) ==
  <<e.decay, e.brightness, e.dispersion, e.attack_decay, e.reverb_mix>>

\* C6: set_guitar_type(t) sets the five parameters to the tuple of preset t
\* for t in 0 .. 3, whatever they were before; for every other t the
\* parameters and the stored guitar_type are those of set_guitar_type(0).
C6_PresetTuples ==
  lastCall.op = "set_guitar_type" =>
    IF lastCall.arg \in 0 .. 3
    THEN /\ ParameterTuple(engine) = GuitarTuples[lastCall.arg + 1]
         /\ engine.guitar_type = lastCall.arg
    ELSE /\ ParameterTuple(engine) = GuitarTuples[1]
         /\ engine.guitar_type = 0

\* guitar type 99 was set as the last call of a run and fell back to type 0
C6_Witness ==
  /\ lastCall.op = "set_guitar_type"
  /\ lastCall.arg = 99
  /\ calls = MaxCalls
  /\ engine.guitar_type = 0

\* C7: the impulse response made by engine_init(sample_rate) has
\* clamp(floor(sample_rate * 0.10), 64, 8192) samples, and the reverb history
\* has as many, in every reachable state.
C7_IrLenTruncated ==
  /\ Len(engine.reverb_ir) =
       (IF engine.sample_rate \div 10 < 64 THEN 64
        ELSE IF engine.sample_rate \div 10 > 8192 THEN 8192
        ELSE engine.sample_rate \div 10)
  /\ Len(engine.reverb_buf) = Len(engine.reverb_ir)

\* C7 as first stated: the impulse response has
\* clamp(round(sample_rate * 0.10), 64, 8192) samples, and the reverb history
\* has as many.
C7_IrLenByRounding ==
  /\ Len(engine.reverb_ir) =
       (IF (engine.sample_rate + 5) \div 10 < 64 THEN 64
        ELSE IF (engine.sample_rate + 5) \div 10 > 8192 THEN 8192
        ELSE (engine.sample_rate + 5) \div 10)
  /\ Len(engine.reverb_buf) = Len(engine.reverb_ir)

\* an engine made at 646 Hz rendered a frame through its 64 taps
C7_Witness ==
  /\ engine.sample_rate = 646
  /\ Len(engine.reverb_ir) = 64
  /\ lastCall.op = "render"

\* x + y and x * a modulo 2^32, on the two halves of a u32
Add32(x, y) ==
  <<(x[1] + y[1] + ((x[2] + y[2]) \div Word)) % Word, (x[2] + y[2]) % Word>>

RECURSIVE Times32(_, _)
Times32(x, a) ==
  IF a = 0 THEN <<0, 0>>
  ELSE LET half == Times32(x, a \div 2)
       IN  IF a % 2 = 1 THEN Add32(Add32(half, half), x) ELSE Add32(half, half)

\* 2 * (s >> 8) / (2^24 - 1) - 1 in millionths, two decimals at a time
NoiseValue(s) ==
  LET n == 2 * (s[1] * 256 + (s[2] \div 256)) - (2 ^ 24 - 1)
      m == IF n < 0 THEN 0 - n ELSE n
      r0 == m % (2 ^ 24 - 1)
      r1 == (r0 * 100) % (2 ^ 24 - 1)
      r2 == (r1 * 100) % (2 ^ 24 - 1)
      q == (m \div (2 ^ 24 - 1)) * 1000000
             + ((r0 * 100) \div (2 ^ 24 - 1)) * 10000
             + ((r1 * 100) \div (2 ^ 24 - 1)) * 100
             + ((r2 * 100) \div (2 ^ 24 - 1))
  IN  IF n < 0 THEN 0 - q ELSE q

\* C8: lcg_next stores new_state = (s * 1664525 + 1013904223) mod 2^32 and
\* returns 2 * (new_state >> 8) / (2^24 - 1) - 1, which lies in [-1, 1]; the
\* new state and the value depend on s alone (from seed 1234567 the first
\* state is 2987172410 and the first value 0.391010).
C8_NoiseSource ==
  [][/\ lcg'.seed = Add32(Times32(lcg.seed, 1664525), U32(1013904223))
     /\ lcg'.value = NoiseValue(lcg'.seed)
     /\ 0 - Scale <= lcg'.value /\ lcg'.value <= Scale
     /\ lcg.seed = U32(1234567) =>
          lcg'.seed = <<45580, 41530>> /\ lcg'.value = 391010]_vars

\* three values were drawn from seed 1234567 and the last one is negative
C8_Witness ==
  /\ calls = 3
  /\ lcg.seed = LcgState[LcgState[<<45580, 41530>>]]
  /\ lcg.value < 0

\* no voice is ringing
Idle == \A i \in VoiceIndex : ~engine.voices[i].active

\* C9: after a note_on with a velocity in [0, 1], if render keeps being called
\* and no other note_on occurs, the voice eventually goes back to idle.
C9_VoiceEventuallyIdle ==
  (lastCall.op = "note_on" /\ 0 <= lastCall.arg2 /\ lastCall.arg2 <= Scale) ~> Idle

\* the delay line of every active voice is well formed
DelayLines(voices) ==
  \A i \in VoiceIndex :
    voices[i].active =>
      /\ voices[i].buffer_len >= 2
      /\ voices[i].buffer_idx < voices[i].buffer_len
      /\ voices[i].buffer_len <= Len(voices[i].buffer)
      /\ 1 <= voices[i].pluck_offset
      /\ voices[i].pluck_offset <= voices[i].buffer_len - 1
      /\ 0 <= voices[i].frac_delay /\ voices[i].frac_delay < Scale

\* C10: every active voice has buffer_len >= 2, buffer_idx < buffer_len,
\* buffer_len within the allocated buffer, pluck_offset in 1 .. buffer_len - 1
\* and frac_delay in [0, 1); and no call makes a voice's buffer shorter.
C10_DelayLines ==
  [][/\ DelayLines(engine.voices)
     /\ DelayLines(engine'.voices)
     /\ \A i \in VoiceIndex :
          Len(engine'.voices[i].buffer) >= Len(engine.voices[i].buffer)]_vars

\* a voice rings on a delay line shorter than the buffer it was given before
C10_Witness ==
  \E i \in VoiceIndex :
    /\ engine.voices[i].active
    /\ engine.voices[i].buffer_len < Len(engine.voices[i].buffer)

\* the feedback sample that the last frame wrote into the delay line of voice
LastFeedback(voice) ==
  voice.buffer[((voice.buffer_idx + voice.buffer_len - 1) % voice.buffer_len) + 1]

\* the step is one rendered frame in which voice i of the engine rang
RangOneFrame(i) ==
  /\ lastCall'.op = "render"
  /\ lastCall'.arg = 1
  /\ engine.voices[i].active
  /\ engine.voices[i].buffer_len >= 2

\* C11: over a rendered frame the running level of a voice rises only if
\* the magnitude of the frame's feedback sample is above the level: the update
\* level' = 0.997 * level + 0.003 * |feedback| gives level' <= level in every
\* frame where |feedback| <= level, and no other call but a note_on on the
\* voice changes its level.
C11_LevelFollowsFeedback ==
  [][\A i \in VoiceIndex :
       /\ RangOneFrame(i) /\ FGt[engine'.voices[i].level, engine.voices[i].level]
            => FGt[FAbs[LastFeedback(engine'.voices[i])], engine.voices[i].level]
       /\ lastCall'.op = "set_guitar_type"
            => engine'.voices[i].level = engine.voices[i].level]_vars

\* C11 as first stated: between two consecutive rendered frames in which no
\* note_on targets a voice, the running level of the voice does not
\* increase: level' <= level.
C11_LevelNeverRises ==
  [][\A i \in VoiceIndex :
       ~(lastCall'.op = "note_on" /\ lastCall'.target = i)
         => FLe[engine'.voices[i].level, engine.voices[i].level]]_vars

\* a frame was rendered whose feedback sample is above the level of its voice,
\* which rose toward it
C11_Witness ==
  /\ lastCall.op = "render"
  /\ \E i \in VoiceIndex :
       /\ engine.voices[i].active
       /\ engine.voices[i].buffer_len >= 2
       /\ FGt[FAbs[LastFeedback(engine.voices[i])], engine.voices[i].level]

=============================================================================
